---- MODULE Spec2Model ----
(***************************************************************************)
(* State-machine model of joschek_captioner_v11.py: the inference-server   *)
(* supervisor (start_server / stop_server / watch_server / reset_ui) and   *)
(* the batch captioning orchestrator (add_folder / remove_item /           *)
(* toggle_batch / run_batch), as run by one Tk controller thread, the      *)
(* daemon threads it starts and the deferred-call queue (root.after).      *)
(***************************************************************************)
EXTENDS Integers, Sequences, FiniteSets, TLC

(* ------------------------------ bounds -------------------------------- *)
\* number of start_server calls explored
MaxStarts == 2
\* children a server forks
MaxKids == 1
\* after(100, reset_ui) timers pending at once
MaxTimers == 2
\* server output lines the watcher copies into the log
MaxLines == 1

\* add_folder calls explored (QueueItem objects ever created)
MaxItems == 2
\* toggle_batch calls that start a run_batch thread
MaxRuns == 2
\* groups of root.after(0, ...) calls queued and not yet run
MaxAfter == 1

\* captioning attempts that fail, over all runs
MaxFailures == 1

Pids == 1..MaxStarts
Kids == 1..MaxKids
ItemIds == 1..MaxItems
Workers == 1..MaxRuns

(* ----------------------------- file system ---------------------------- *)
\* the folders the operator can pick and the image files they hold
Folders == {"A", "B"}
ImageFiles ==
    { [folder |-> "A", stem |-> "a1", ext |-> "jpg"],
      [folder |-> "B", stem |-> "b1", ext |-> "png"],
      [folder |-> "B", stem |-> "b2", ext |-> "png"] }
\* line 618: the caption file of an image, os.path.splitext(img)[0] + ".txt"
Txt(img) == <<img.folder, img.stem>>
TxtFiles == { Txt(i) : i \in ImageFiles }
\* line 637: os.path.basename(img)
Basename(img) == <<img.stem, img.ext>>

VARIABLES
    server_proc,   \* self.server_proc: 0 is None, else the pid of the Popen
    procs,         \* OS view of each launched process
    signaled,      \* pids whose process group has received SIGTERM
    btn_start,     \* state of the "Start Server" button
    btn_stop,      \* state of the "Stop Server" button
    log,           \* self.log, the server log widget
    watchers,      \* watch_server thread of each launched process
    waiting,       \* threads blocked in Popen.wait: [thread, pid]
    timers,        \* pending root.after(100, self.reset_ui) timers
    nstart,        \* start_server calls made so far
    nlines,        \* lines copied by the watchers so far
    kids,          \* the children forked by each launched server
    paths,         \* whether the files named by self.bin, self.model exist
    afterq,        \* pending root.after(0, ...) calls, in order
    closed,        \* root.destroy() has run
    batch_running, \* self.batch_running
    queue,         \* self.queue: the QueueItem objects, in insertion order
    items,         \* the QueueItem objects created so far
    nitems,        \* QueueItem objects created so far
    overwrite,     \* self.overwrite (the Overwrite checkbox)
    btn_proc,      \* text of the batch toggle button
    prog_lbl,      \* text of the run indicator label
    progress,      \* value of the progress bar
    status_log,    \* self.status_log
    dialog,        \* modal message box shown by the controller
    caption,       \* content of each caption file
    workers,       \* the run_batch threads: locals and position
    nruns,         \* run_batch threads started so far
    nfail,         \* captioning attempts that have failed so far
    hist,          \* per run: what the run has done so far (history)
    last_prompt,   \* config.data["last_prompt"]
    current_caption_file, \* self.current_caption_file; <<>> while unset
    editor_text    \* content of the Editor tab's text box

srvVars == <<server_proc, procs, signaled, btn_start, btn_stop, log,
             watchers, waiting, timers, nstart, nlines, paths, kids>>

batVars == <<batch_running, queue, items, nitems, overwrite, btn_proc,
             prog_lbl, progress, status_log, dialog, caption, workers,
             nruns, nfail, hist, last_prompt, current_caption_file,
             editor_text>>

vars == <<server_proc, procs, signaled, btn_start, btn_stop, log,
          watchers, waiting, timers, nstart, nlines, paths, kids, afterq,
          closed,
          batch_running, queue, items, nitems, overwrite, btn_proc,
          prog_lbl, progress, status_log, dialog, caption, workers,
          nruns, nfail, hist, last_prompt, current_caption_file,
          editor_text>>

\* App.__init__ (lines 132, 212-216): no process, Start enabled, Stop disabled
InitServer ==
    /\ server_proc = 0
    /\ procs = [p \in Pids |-> "none"]
    /\ signaled = {}
    /\ btn_start = "normal"
    /\ btn_stop = "disabled"
    /\ log = <<>>
    /\ watchers = [p \in Pids |-> "none"]
    /\ waiting = {}
    /\ timers = 0
    /\ nstart = 0
    /\ nlines = 0
    /\ paths = [bin |-> TRUE, model |-> TRUE]
    /\ kids = [p \in Pids |-> [c \in Kids |-> "none"]]

\* The controller thread can handle an event: the window still exists and
\* the thread is not itself blocked in a wait for a process.
CtlFree ==
    /\ ~closed
    /\ \A w \in waiting : w.thread # "ctl"

(* ------------------------- server supervisor -------------------------- *)

\* one insertion into the server log; "by" records on behalf of which
\* launched process the text was inserted (0: none in particular)
Line(text, by) == [text |-> text, by |-> by]

\* lines 525-528: what subprocess.Popen(cmd) can do.  It raises when the
\* binary named by self.bin is missing; with the binary present it spawns
\* the process (or raises for another reason, such as a file that is not
\* executable).  The model path is only an argument of the command.
Launches == IF paths.bin THEN {TRUE, FALSE} ELSE {FALSE}

\* the operator edits the Server Binary or the Model field (lines 173-174,
\* 184-187) to a path that exists or to one that does not
set_path(field, exists) ==
    /\ CtlFree /\ dialog = "none"
    /\ paths[field] # exists
    /\ paths' = [paths EXCEPT ![field] = exists]
    /\ UNCHANGED <<server_proc, procs, signaled, btn_start, btn_stop, log,
                   watchers, waiting, timers, nstart, nlines, afterq, closed, kids>>
    /\ UNCHANGED batVars

\* start_server, lines 519-533.  Popen either raises (binary missing or not
\* executable) or spawns a process that leads a new session / process group.
start_server ==
    /\ CtlFree /\ dialog = "none"
    /\ btn_start = "normal"
    /\ nstart < MaxStarts
    /\ nstart' = nstart + 1
    /\ \E spawned \in Launches :
         IF spawned
         THEN /\ server_proc' = nstart + 1
              /\ procs' = [procs EXCEPT ![nstart + 1] = "running"]
              /\ btn_start' = "disabled"
              /\ btn_stop' = "normal"
              /\ watchers' = [watchers EXCEPT ![nstart + 1] = "reading"]
              /\ log' = Append(log, Line("Starting server...", 0))
         ELSE /\ log' = log \o <<Line("Starting server...", 0),
                                  Line("Error", 0)>>
              /\ UNCHANGED <<server_proc, procs, btn_start, btn_stop, watchers>>
    /\ UNCHANGED <<signaled, waiting, timers, nlines, afterq, closed, paths, kids>>
    /\ UNCHANGED batVars

\* the server forks a child, which inherits its process group; a server
\* that has been sent SIGTERM is shutting down and forks no more
spawn_child(p, c) ==
    /\ procs[p] = "running"
    /\ p \notin signaled
    /\ kids[p][c] = "none"
    /\ kids' = [kids EXCEPT ![p][c] = "running"]
    /\ UNCHANGED <<server_proc, procs, signaled, btn_start, btn_stop, log,
                   watchers, waiting, timers, nstart, nlines, afterq, closed,
                   paths>>
    /\ UNCHANGED batVars

\* a signal sent with os.kill(pid): it reaches the leader only
TargetsLeader(p) == {0}

\* line 537, os.killpg(os.getpgid(pid), SIGTERM): the signal goes to every
\* process of the group that the server leads since preexec_fn=os.setsid
\* (line 528): the leader, written 0, and each child it has forked
Targets(p) == {0} \cup { c \in Kids : kids[p][c] # "none" }

\* a stop_server that calls self.server_proc.wait() itself
StopWaiterInline(pid) == [thread |-> "ctl", pid |-> pid]

\* line 538: the thread that calls Popen.wait is a fresh daemon thread
StopWaiter(pid) == [thread |-> "bg", pid |-> pid]

\* stop_server, lines 534-541.  os.getpgid raises for a process that has
\* already been reaped; otherwise the group is signalled and a thread is
\* started on Popen.wait.  The reset_ui timer is armed in every case.
stop_server_body ==
    /\ IF server_proc # 0
       THEN IF procs[server_proc] = "reaped"
            THEN /\ log' = Append(log, Line("Stop error", server_proc))
                 /\ UNCHANGED <<signaled, waiting, kids>>
            ELSE /\ signaled' = signaled \cup {server_proc}
                 /\ kids' = [kids EXCEPT ![server_proc] =
                               [c \in Kids |->
                                  IF c \in Targets(server_proc)
                                       /\ @[c] = "running"
                                  THEN "signaled" ELSE @[c]]]
                 /\ waiting' = waiting \cup {StopWaiter(server_proc)}
                 /\ UNCHANGED log
       ELSE UNCHANGED <<signaled, waiting, log, kids>>
    /\ timers' = timers + 1

\* the Stop Server button (line 214)
stop_server ==
    /\ CtlFree /\ dialog = "none"
    /\ btn_stop = "normal"
    /\ timers < MaxTimers
    /\ stop_server_body
    /\ UNCHANGED <<server_proc, procs, btn_start, btn_stop, watchers,
                   nstart, nlines, afterq, closed, paths>>
    /\ UNCHANGED batVars

\* reset_ui, lines 551-554
reset_ui_body(by) ==
    /\ btn_start' = "normal"
    /\ btn_stop' = "disabled"
    /\ log' = Append(log, Line("Server stopped", by))

\* the after(100, reset_ui) timer armed by stop_server fires
reset_ui_timer ==
    /\ CtlFree
    /\ timers > 0
    /\ timers' = timers - 1
    /\ reset_ui_body(0)
    /\ UNCHANGED <<server_proc, procs, signaled, watchers, waiting,
                   nstart, nlines, afterq, closed, paths, kids>>
    /\ UNCHANGED batVars

\* the after(0, reset_ui) call queued by watch_server is run
reset_ui_after ==
    /\ CtlFree
    /\ afterq # <<>>
    /\ Head(afterq).fn = "reset_ui"
    /\ afterq' = Tail(afterq)
    /\ reset_ui_body(Head(afterq).pid)
    /\ UNCHANGED <<server_proc, procs, signaled, watchers, waiting,
                   timers, nstart, nlines, closed, paths, kids>>
    /\ UNCHANGED batVars

\* watch_server, lines 544-547: one line of server output is inserted into
\* the log by the watcher thread itself
watch_server_line(p) ==
    /\ ~closed
    /\ watchers[p] = "reading"
    /\ procs[p] = "running"
    /\ nlines < MaxLines
    /\ nlines' = nlines + 1
    /\ log' = Append(log, Line("line", p))
    /\ UNCHANGED <<server_proc, procs, signaled, btn_start, btn_stop,
                   watchers, waiting, timers, nstart, afterq, closed, paths, kids>>
    /\ UNCHANGED batVars

\* a watcher that ends at end-of-stream without queuing reset_ui
watch_server_quiet(p) ==
    /\ ~closed
    /\ watchers[p] = "reading"
    /\ procs[p] \in {"exited", "reaped"}
    /\ watchers' = [watchers EXCEPT ![p] = "done"]
    /\ UNCHANGED <<server_proc, procs, signaled, btn_start, btn_stop, log,
                   waiting, timers, nstart, nlines, afterq, closed, paths, kids>>
    /\ UNCHANGED batVars

\* watch_server, lines 544 and 550: readline returns "" once the process has
\* exited; the watcher queues reset_ui and ends
watch_server_eof(p) ==
    /\ ~closed
    /\ watchers[p] = "reading"
    /\ procs[p] \in {"exited", "reaped"}
    /\ watchers' = [watchers EXCEPT ![p] = "done"]
    /\ afterq' = Append(afterq, [fn |-> "reset_ui", pid |-> p])
    /\ UNCHANGED <<server_proc, procs, signaled, btn_start, btn_stop, log,
                   waiting, timers, nstart, nlines, closed, paths, kids>>
    /\ UNCHANGED batVars

\* the server process exits, by itself or in response to SIGTERM; a process
\* that ignores the signal simply never takes this step
proc_exit(p) ==
    /\ procs[p] = "running"
    /\ procs' = [procs EXCEPT ![p] = "exited"]
    /\ UNCHANGED <<server_proc, signaled, btn_start, btn_stop, log, watchers,
                   waiting, timers, nstart, nlines, afterq, closed, paths, kids>>
    /\ UNCHANGED batVars

\* Popen.wait (line 538) returns in the thread blocked on it once the
\* process has exited, which reaps the process
wait_returns(w) ==
    /\ ~closed
    /\ w \in waiting
    /\ procs[w.pid] \in {"exited", "reaped"}
    /\ procs' = [procs EXCEPT ![w.pid] = "reaped"]
    /\ waiting' = waiting \ {w}
    /\ UNCHANGED <<server_proc, signaled, btn_start, btn_stop, log, watchers,
                   timers, nstart, nlines, afterq, closed, paths, kids>>
    /\ UNCHANGED batVars

\* on_close, lines 652-655: stop_server if a Popen was ever stored, then
\* root.destroy(), which ends the main loop and with it every daemon thread
on_close ==
    /\ CtlFree /\ dialog = "none"
    /\ IF server_proc # 0
       THEN stop_server_body
       ELSE UNCHANGED <<signaled, waiting, log, timers, kids>>
    /\ closed' = TRUE
    /\ UNCHANGED <<server_proc, procs, btn_start, btn_stop, watchers,
                   nstart, nlines, afterq, paths>>
    /\ UNCHANGED batVars

(* --------------------------- batch orchestrator ----------------------- *)

\* all orderings of a finite set, as sequences without repetition
Orderings(S) ==
    { f \in [1..Cardinality(S) -> S] :
        \A i, j \in 1..Cardinality(S) : i # j => f[i] # f[j] }

\* lines 610-612: the glob patterns, in the order the loop tries them
Patterns == <<"png", "PNG", "jpg", "JPG", "jpeg", "JPEG",
              "webp", "WEBP", "bmp", "BMP">>

\* lines 609-612: imgs is the concatenation, pattern by pattern, of the
\* files glob.glob returns; glob returns the matches of one pattern in
\* directory order, which is arbitrary
RECURSIVE GlobFrom(_, _)
GlobFrom(folder, i) ==
    IF i > Len(Patterns) THEN { <<>> }
    ELSE { a \o b :
             a \in Orderings({ f \in ImageFiles :
                                 f.folder = folder /\ f.ext = Patterns[i] }),
             b \in GlobFrom(folder, i + 1) }
Glob(folder) == GlobFrom(folder, 1)

\* a progress value computed per folder, without the folder index
PctOfFolder(idx, done, total_imgs, total) ==
    IF total_imgs > 0 THEN (done * 100) \div total_imgs ELSE 0

\* line 642: int(((idx + done / total_imgs) / total) * 100); the float
\* expression equals this exact floor for every total_imgs <= 3 and
\* total < 25, and like it never decreases as idx or done grows
Pct(idx, done, total_imgs, total) ==
    IF total_imgs > 0
    THEN ((idx * total_imgs + done) * 100) \div (total_imgs * total)
    ELSE 0

\* line 29
DEFAULT_PROMPT == "Describe this image in detail"

\* the texts the operator types into a prompt box, as get_prompt (lines
\* 107-108) returns them: stripped, possibly empty
Typed == {"", "p", "q"}

\* line 623: item.get_prompt() or DEFAULT_PROMPT
PromptOf(it) == IF it.prompt = "" THEN DEFAULT_PROMPT ELSE it.prompt

\* QueueItem.__init__, lines 81-82 and 91: status "pending", label "Ready";
\* line 101: the prompt box starts with the configured last prompt
Label(state, msg, d, t) == [state |-> state, msg |-> msg, d |-> d, t |-> t]
NewItem(path) ==
    [folder |-> path, status |-> "pending", alive |-> TRUE,
     label |-> Label("pending", "Ready", 0, 0), prompt |-> last_prompt]
NoItem ==
    [folder |-> "none", status |-> "none", alive |-> FALSE,
     label |-> Label("none", "", 0, 0), prompt |-> ""]

\* a run_batch thread that has not been started, and one that has returned
\* (its locals are gone)
IdleWorker ==
    [pc |-> "idle", total |-> 0, it |-> 0, idx |-> 0, item |-> 0,
     imgs |-> <<>>, k |-> 0, done |-> 0, ov |-> FALSE, had |-> FALSE]
ExitedWorker == [IdleWorker EXCEPT !.pc = "exit"]

\* (begin: the prompt the folder in progress had when it was started;
\* flight: the visit whose attempt was under way when a stop was requested;
\* queue0: the items queued when the run read the queue length; finished:
\* the items the run has marked done; had0: the images of the folder in
\* progress whose caption file existed when the folder was scanned)
\* history of one run, kept until its thread returns: the status emitted
\* for each folder index, the folder in progress when a stop was first
\* requested, whether the worker read the flag as false, whether the queue
\* changed under it, the queued images without caption when it started,
\* the visits (folder index, image) skipped, the captioning attempts made,
\* and the progress values emitted
NoHist ==
    [marks |-> [i \in 0..(MaxItems - 1) |-> "none"], stopIdx |-> -1,
     cancelled |-> FALSE, qmut |-> FALSE, missing0 |-> {},
     skips |-> {}, att |-> {}, pcts |-> {}, lastPct |-> -1,
     begin |-> "none", flight |-> <<>>, queue0 |-> {}, finished |-> {},
     had0 |-> {}]

\* what can happen to one captioning attempt, lines 622-641:
\*   ok          the caption is written
\*   blank       the reply's text is empty or only whitespace: the empty
\*               text is written and the image is reported as captioned
\*   read_error  open(img) raises, before any request is made
\*   api_error   the request raises
\*   no_content  the response has no choices or no text: open(txt, "w") has
\*               already created or truncated the file when .strip() raises
\*   write_error open(txt, "w") raises
Outcomes ==
    {"ok", "blank", "read_error", "api_error", "no_content", "write_error"}

\* lines 622-641: the outcomes that raise inside the try block.  A reply
\* whose content is empty or only whitespace ("blank") does not: strip()
\* returns "" and the empty text is written like any caption
Raises(out) == out \notin {"ok", "blank"}

\* one captioning attempt: the visit, the value of the Overwrite checkbox
\* and the presence of the caption file when the image was reached, and
\* what the attempt did
Attempt(idx, img, ov, had, out, prompt, begin) ==
    [idx |-> idx, img |-> img, ov |-> ov, had |-> had,
     prompt |-> prompt, begin |-> begin,
     called |-> out # "read_error",
     wrote |-> out \in {"ok", "blank", "no_content"},
     text |-> out = "ok",
     ok |-> ~Raises(out)]

Active(w) == workers[w].pc \notin {"idle", "exit"}
InFolder(w) == workers[w].pc \in {"image", "infer", "folder_end"}

\* App.__init__ lines 133-135, 232-245, 281-283; any caption file may
\* already exist; current_caption_file is not set until an image is selected
InitBatch ==
    /\ batch_running = FALSE
    /\ queue = <<>>
    /\ items = [i \in ItemIds |-> NoItem]
    /\ nitems = 0
    /\ overwrite = FALSE
    /\ btn_proc = "Start Processing"
    /\ prog_lbl = "Idle"
    /\ progress = 0
    /\ status_log = <<>>
    /\ dialog = "none"
    /\ caption \in [TxtFiles -> {"absent", "orig"}]
    /\ workers = [w \in Workers |-> IdleWorker]
    /\ nruns = 0
    /\ nfail = 0
    /\ hist = [w \in Workers |-> NoHist]
    /\ last_prompt = DEFAULT_PROMPT
    /\ current_caption_file = <<>>
    /\ editor_text = ""

\* the operator can click: no modal message box is open
UserCan == CtlFree /\ dialog = "none"

\* add_folder, lines 556-569, for a chosen path (a cancelled dialog returns
\* without effect)
add_folder ==
    /\ UserCan
    /\ nitems < MaxItems
    /\ \E path \in Folders :
         /\ items' = [items EXCEPT ![nitems + 1] = NewItem(path)]
         /\ queue' = Append(queue, nitems + 1)
    /\ nitems' = nitems + 1
    /\ hist' = [w \in Workers |->
                  IF Active(w) /\ workers[w].pc # "start"
                  THEN [hist[w] EXCEPT !.qmut = TRUE] ELSE hist[w]]
    /\ UNCHANGED <<batch_running, overwrite, btn_proc, prog_lbl, progress,
                   status_log, dialog, caption, workers, nruns, nfail, afterq, closed,
                   last_prompt, current_caption_file, editor_text>>
    /\ UNCHANGED srvVars

\* the sequence without the element x (list.remove of a present element)
Without(q, x) == SelectSeq(q, LAMBDA y : y # x)
InQueue(x) == \E i \in 1..Len(queue) : queue[i] = x

\* remove_item, lines 570-574: the click on the "x" of a live QueueItem
remove_item(id) ==
    /\ UserCan
    /\ items[id].alive
    /\ IF items[id].status # "processing"
       THEN /\ items' = [items EXCEPT ![id].alive = FALSE]
            /\ queue' = IF InQueue(id) THEN Without(queue, id) ELSE queue
            /\ hist' = [w \in Workers |->
                          IF Active(w) /\ workers[w].pc # "start"
                          THEN [hist[w] EXCEPT !.qmut = TRUE] ELSE hist[w]]
       ELSE UNCHANGED <<items, queue, hist>>
    /\ UNCHANGED <<batch_running, nitems, overwrite, btn_proc, prog_lbl,
                   progress, status_log, dialog, caption, workers, nruns, nfail,
                   afterq, closed,
                   last_prompt, current_caption_file, editor_text>>
    /\ UNCHANGED srvVars

\* the Overwrite checkbox (line 235) is toggled
toggle_overwrite ==
    /\ UserCan
    /\ overwrite' = ~overwrite
    /\ UNCHANGED <<batch_running, queue, items, nitems, btn_proc, prog_lbl,
                   progress, status_log, dialog, caption, workers, nruns, nfail,
                   hist, afterq, closed,
                   last_prompt, current_caption_file, editor_text>>
    /\ UNCHANGED srvVars

\* a key is released in the prompt box of a live item (line 102): the box
\* holds the new text and config.set stores it as the last prompt
set_prompt(id, text) ==
    /\ UserCan
    /\ items[id].alive
    /\ items[id].prompt # text
    /\ items' = [items EXCEPT ![id].prompt = text]
    /\ last_prompt' = text
    /\ UNCHANGED <<batch_running, queue, nitems, overwrite, btn_proc, prog_lbl,
                   progress, status_log, dialog, caption, workers, nruns, nfail,
                   hist, afterq, closed, current_caption_file, editor_text>>
    /\ UNCHANGED srvVars

\* lines 441-443 and 447-449: the text box shows "" for a caption file that
\* is missing or empty, and the text written to the file makes it exist,
\* empty when the box is empty
TextOf(content) == IF content \in {"absent", "empty"} THEN "" ELSE content
FileOf(text) == IF text = "" THEN "empty" ELSE text

\* what the operator leaves in the text box by typing
Typing == {"", "edit"}

\* load_caption_for_image, lines 437-443, called when the operator selects
\* an image in the Editor tab (line 400)
load_caption_for_image(img) ==
    /\ UserCan
    /\ current_caption_file # Txt(img)
    /\ current_caption_file' = Txt(img)
    /\ editor_text' = TextOf(caption[Txt(img)])
    /\ UNCHANGED <<batch_running, queue, items, nitems, overwrite, btn_proc,
                   prog_lbl, progress, status_log, dialog, caption, workers,
                   nruns, nfail, hist, afterq, closed, last_prompt>>
    /\ UNCHANGED srvVars

\* autosave_caption, lines 444-452, bound to <KeyRelease> of the text box
\* (line 284): the key has left text in the box (the same text for a key
\* that edits nothing); if an image has been selected, the content of the
\* box is written to its caption file, which open(..., "w") creates
autosave_caption(text) ==
    /\ UserCan
    /\ editor_text' = text
    /\ caption' = IF current_caption_file = <<>> THEN caption
                  ELSE [caption EXCEPT ![current_caption_file] = FileOf(text)]
    /\ editor_text' # editor_text \/ caption' # caption
    /\ UNCHANGED <<batch_running, queue, items, nitems, overwrite, btn_proc,
                   prog_lbl, progress, status_log, dialog, workers, nruns,
                   nfail, hist, afterq, closed, last_prompt,
                   current_caption_file>>
    /\ UNCHANGED srvVars

\* a failed probe handled after the status log has been cleared
probe_failed_late ==
    /\ dialog' = "Connection Error"
    /\ status_log' = <<>>
    /\ UNCHANGED <<batch_running, btn_proc, prog_lbl, workers, nruns, hist>>

\* toggle_batch, lines 589-591: client.models.list() raised; the error box
\* is shown and toggle_batch returns
probe_failed ==
    /\ dialog' = "Connection Error"
    /\ UNCHANGED <<batch_running, btn_proc, prog_lbl, status_log, workers,
                   nruns, hist>>

\* toggle_batch, lines 580-597.  With the flag set it is a stop request;
\* otherwise the endpoint is probed (answers: what client.models.list() can
\* do, TRUE return, FALSE raise) and, if it answers, the status log is
\* cleared, the flag is set and a run_batch thread is started.
toggle_batch(answers) ==
    /\ UserCan
    /\ IF batch_running
       THEN /\ batch_running' = FALSE
            /\ btn_proc' = "Start Processing"
            /\ prog_lbl' = "Stopping..."
            /\ hist' = [w \in Workers |->
                          IF InFolder(w) /\ hist[w].stopIdx = -1
                          THEN [hist[w] EXCEPT
                                  !.stopIdx = workers[w].idx,
                                  !.flight =
                                     IF workers[w].pc = "infer"
                                     THEN <<workers[w].idx,
                                            workers[w].imgs[workers[w].k]>>
                                     ELSE <<>>]
                          ELSE hist[w]]
            /\ UNCHANGED <<status_log, dialog, workers, nruns>>
       ELSE \E reachable \in answers :
              IF reachable
              THEN /\ nruns < MaxRuns
                   /\ status_log' = <<>>
                   /\ batch_running' = TRUE
                   /\ btn_proc' = "Stop Processing"
                   /\ workers' = [workers EXCEPT ![nruns + 1].pc = "start"]
                   /\ nruns' = nruns + 1
                   /\ UNCHANGED <<prog_lbl, dialog, hist>>
              ELSE probe_failed
    /\ UNCHANGED <<queue, items, nitems, overwrite, progress, caption,
                   nfail, afterq, closed,
                   last_prompt, current_caption_file, editor_text>>
    /\ UNCHANGED srvVars

\* the operator dismisses the message box of line 590
dismiss_dialog ==
    /\ ~closed
    /\ dialog # "none"
    /\ dialog' = "none"
    /\ UNCHANGED <<batch_running, queue, items, nitems, overwrite, btn_proc,
                   prog_lbl, progress, status_log, caption, workers, nruns, nfail,
                   hist, afterq, closed,
                   last_prompt, current_caption_file, editor_text>>
    /\ UNCHANGED srvVars

\* The deferred calls run_batch queues with root.after(0, ...).  Calls
\* queued by consecutive statements are one entry of afterq, run in one
\* step: each of them touches a different widget.
\*   lines 608, 646-647: item.set_status
CallSetStatus(item, state, msg, d, t) ==
    [fn |-> "set_status", item |-> item, label |-> Label(state, msg, d, t)]
\*   lines 638 or 641, 643, 644-645: log_status, progress.configure and
\*   item.set_status("processing", "d/t") after one image
CallReport(ok, name, p, item, d, t) ==
    [fn |-> "report", ok |-> ok, name |-> name, value |-> p, item |-> item,
     label |-> Label("processing", "d/t", d, t)]
\*   lines 602-603 and 649-650: btn_proc.config and prog_lbl.config
CallReset(text) ==
    [fn |-> "reset", btn |-> "Start Processing", text |-> text]

Room(n) == Len(afterq) + n <= MaxAfter

\* a loop test that never sees the flag cleared
StopSeenNever == FALSE

\* lines 606 and 616: if not self.batch_running: break
StopSeen == ~batch_running

\* run_batch, line 599: total = len(self.queue)
run_start(w) ==
    /\ ~closed
    /\ workers[w].pc = "start"
    /\ workers' = [workers EXCEPT
                     ![w].total = Len(queue),
                     ![w].pc = IF Len(queue) = 0 THEN "empty" ELSE "folder"]
    /\ hist' = [hist EXCEPT
                 ![w].queue0 = { queue[i] : i \in 1..Len(queue) },
                 ![w].missing0 =
                  { f \in ImageFiles :
                      /\ caption[Txt(f)] = "absent"
                      /\ \E i \in 1..Len(queue) :
                           items[queue[i]].folder = f.folder }]
    /\ UNCHANGED <<batch_running, queue, items, nitems, overwrite, btn_proc,
                   prog_lbl, progress, status_log, dialog, caption, nruns, nfail,
                   afterq, closed,
                   last_prompt, current_caption_file, editor_text>>
    /\ UNCHANGED srvVars

\* an empty queue reported like the normal end of a run
EmptyTextIdle == "Idle"

\* line 603: the text shown by the run indicator for an empty queue
EmptyText == "No folders in queue"

\* run_batch, lines 600-604: the queue was empty
run_empty(w) ==
    /\ ~closed
    /\ workers[w].pc = "empty"
    /\ Room(1)
    /\ batch_running' = FALSE
    /\ afterq' = Append(afterq, CallReset(EmptyText))
    /\ workers' = [workers EXCEPT ![w] = ExitedWorker]
    /\ hist' = [hist EXCEPT ![w] = NoHist]
    /\ UNCHANGED <<queue, items, nitems, overwrite, btn_proc, prog_lbl,
                   progress, status_log, dialog, caption, nruns, nfail, closed,
                   last_prompt, current_caption_file, editor_text>>
    /\ UNCHANGED srvVars

\* run_batch, lines 605-614: the list iterator of enumerate(self.queue)
\* yields the element at its position in the list as it is now, or ends the
\* loop; then the flag is tested, the folder is marked and scanned
run_folder(w) ==
    /\ ~closed
    /\ workers[w].pc = "folder"
    /\ LET me == workers[w] IN
       IF me.it >= Len(queue)
       THEN /\ workers' = [workers EXCEPT ![w].pc = "finish"]
            /\ UNCHANGED <<afterq, hist>>
       ELSE LET item == queue[me.it + 1] IN
            IF StopSeen
            THEN /\ workers' = [workers EXCEPT ![w].pc = "finish",
                                  ![w].it = me.it + 1, ![w].idx = me.it,
                                  ![w].item = item]
                 /\ hist' = [hist EXCEPT ![w].cancelled = TRUE]
                 /\ UNCHANGED afterq
            ELSE /\ Room(1)
                 /\ \E imgs \in Glob(items[item].folder) :
                      workers' = [workers EXCEPT ![w].pc = "image",
                                    ![w].it = me.it + 1, ![w].idx = me.it,
                                    ![w].item = item, ![w].imgs = imgs,
                                    ![w].k = 0, ![w].done = 0]
                 /\ afterq' = Append(afterq,
                        CallSetStatus(item, "processing", "Scanning...", 0, 0))
                 /\ hist' = [hist EXCEPT ![w].marks[me.it] = "processing",
                                          ![w].begin = PromptOf(items[item]),
                                          ![w].had0 =
                                            { f \in ImageFiles :
                                                /\ f.folder = items[item].folder
                                                /\ caption[Txt(f)] # "absent" }]
    /\ UNCHANGED <<batch_running, queue, items, nitems, overwrite, btn_proc,
                   prog_lbl, progress, status_log, dialog, caption, nruns, nfail,
                   closed,
                   last_prompt, current_caption_file, editor_text>>
    /\ UNCHANGED srvVars

\* run_batch, lines 646-647: r = self.batch_running is read when the call is
\* queued; the folder is marked done or error accordingly
EndFolder(w) ==
    /\ Room(1)
    /\ afterq' = Append(afterq,
          IF batch_running
          THEN CallSetStatus(workers[w].item, "done", "Complete", 0, 0)
          ELSE CallSetStatus(workers[w].item, "error", "Stopped", 0, 0))
    /\ hist' = [hist EXCEPT
                 ![w].marks[workers[w].idx] =
                     IF batch_running THEN "done" ELSE "error",
                 ![w].cancelled = @ \/ ~batch_running,
                 ![w].finished = IF batch_running
                                 THEN @ \cup {workers[w].item} ELSE @]
    /\ workers' = [workers EXCEPT ![w].pc = "folder", ![w].imgs = <<>>,
                                   ![w].k = 0, ![w].done = 0]

\* a skip test that forgets the caption file
SkipNever(img) == FALSE

\* line 619: os.path.exists(txt) and not self.overwrite.get()
SkipImage(img) == caption[Txt(img)] # "absent" /\ ~overwrite

\* run_batch, lines 615-621: next image or end of the folder; the flag is
\* tested; an image with a caption file is counted done and skipped
run_image(w) ==
    /\ ~closed
    /\ workers[w].pc = "image"
    /\ LET me == workers[w] IN
       IF me.k >= Len(me.imgs)
       THEN EndFolder(w)
       ELSE LET img == me.imgs[me.k + 1] IN
            /\ IF StopSeen
               THEN /\ workers' = [workers EXCEPT ![w].pc = "folder_end",
                                     ![w].k = me.k + 1]
                    /\ hist' = [hist EXCEPT ![w].cancelled = TRUE]
               ELSE IF SkipImage(img)
               THEN /\ workers' = [workers EXCEPT ![w].done = me.done + 1,
                                     ![w].k = me.k + 1]
                    /\ hist' = [hist EXCEPT ![w].skips =
                                  @ \cup {<<me.idx, img>>}]
               ELSE /\ workers' = [workers EXCEPT ![w].pc = "infer",
                                     ![w].k = me.k + 1,
                                     ![w].ov = overwrite,
                                     ![w].had = caption[Txt(img)] # "absent"]
                    /\ UNCHANGED hist
            /\ UNCHANGED afterq
    /\ UNCHANGED <<batch_running, queue, items, nitems, overwrite, btn_proc,
                   prog_lbl, progress, status_log, dialog, caption, nruns, nfail,
                   closed,
                   last_prompt, current_caption_file, editor_text>>
    /\ UNCHANGED srvVars

\* an except clause that leaves the image loop
AfterAttemptBreak(out) == IF Raises(out) THEN "folder_end" ELSE "image"

\* lines 636-641: after the attempt, failed or not, the loop body goes on to
\* the progress report and the next image
AfterAttempt(out) == "image"

\* run_batch, lines 622-645: one captioning attempt and its reports
run_infer(w, outs) ==
    /\ ~closed
    /\ workers[w].pc = "infer"
    /\ Room(1)
    /\ \E out \in outs :
         LET me == workers[w]
             img == me.imgs[me.k]
             done == IF Raises(out) THEN me.done ELSE me.done + 1
             pct == Pct(me.idx, done, Len(me.imgs), me.total)
         IN /\ out # "ok" => nfail < MaxFailures
            /\ nfail' = IF out = "ok" THEN nfail ELSE nfail + 1
            /\ caption' = [caption EXCEPT ![Txt(img)] =
                             CASE out = "ok" -> "gen"
                               [] out \in {"blank", "no_content"} -> "empty"
                               [] OTHER -> @]
            /\ workers' = [workers EXCEPT ![w].pc = AfterAttempt(out),
                                           ![w].done = done,
                                           ![w].ov = FALSE, ![w].had = FALSE]
            /\ afterq' = Append(afterq,
                   CallReport(~Raises(out), Basename(img), pct, me.item,
                              done, Len(me.imgs)))
            /\ hist' = [hist EXCEPT
                         ![w].att = @ \cup
                            {Attempt(me.idx, img, me.ov, me.had, out,
                                     PromptOf(items[me.item]),
                                     hist[w].begin)},
                         ![w].pcts = @ \cup {pct},
                         ![w].lastPct = pct]
    /\ UNCHANGED <<batch_running, queue, items, nitems, overwrite, btn_proc,
                   prog_lbl, progress, status_log, dialog, nruns, closed,
                   last_prompt, current_caption_file, editor_text>>
    /\ UNCHANGED srvVars

\* run_batch, lines 616-617 then 646-647: the image loop was left by break
run_folder_end(w) ==
    /\ ~closed
    /\ workers[w].pc = "folder_end"
    /\ EndFolder(w)
    /\ UNCHANGED <<batch_running, queue, items, nitems, overwrite, btn_proc,
                   prog_lbl, progress, status_log, dialog, caption, nruns, nfail,
                   closed,
                   last_prompt, current_caption_file, editor_text>>
    /\ UNCHANGED srvVars

\* a thread that returns without clearing the flag or queuing the resets
run_finish_silent(w) ==
    /\ ~closed
    /\ workers[w].pc = "finish"
    /\ workers' = [workers EXCEPT ![w] = ExitedWorker]
    /\ hist' = [hist EXCEPT ![w] = NoHist]
    /\ UNCHANGED <<batch_running, afterq, queue, items, nitems, overwrite,
                   btn_proc, prog_lbl, progress, status_log, dialog, caption,
                   nruns, nfail, closed,
                   last_prompt, current_caption_file, editor_text>>
    /\ UNCHANGED srvVars

\* run_batch, lines 648-650: the flag is cleared by the worker thread and
\* the resets of the button and of the run indicator are queued
run_finish(w) ==
    /\ ~closed
    /\ workers[w].pc = "finish"
    /\ Room(1)
    /\ batch_running' = FALSE
    /\ afterq' = Append(afterq, CallReset("Idle"))
    /\ workers' = [workers EXCEPT ![w] = ExitedWorker]
    /\ hist' = [hist EXCEPT ![w] = NoHist]
    /\ UNCHANGED <<queue, items, nitems, overwrite, btn_proc, prog_lbl,
                   progress, status_log, dialog, caption, nruns, nfail, closed,
                   last_prompt, current_caption_file, editor_text>>
    /\ UNCHANGED srvVars

\* one step of the run_batch thread w, in an environment whose captioning
\* attempts end in one of outs
run_batch(w, outs) ==
    \/ run_start(w)
    \/ run_empty(w)
    \/ run_folder(w)
    \/ run_image(w)
    \/ run_infer(w, outs)
    \/ run_folder_end(w)
    \/ run_finish(w)

\* QueueItem.set_status, lines 104-106, run by the controller; on a
\* destroyed widget status_lbl.config raises and nothing changes
after_set_status ==
    /\ CtlFree
    /\ afterq # <<>>
    /\ Head(afterq).fn = "set_status"
    /\ afterq' = Tail(afterq)
    /\ items' = IF items[Head(afterq).item].alive
                THEN [items EXCEPT ![Head(afterq).item].label =
                                      Head(afterq).label]
                ELSE items
    /\ UNCHANGED <<batch_running, queue, nitems, overwrite, btn_proc,
                   prog_lbl, progress, status_log, dialog, caption, workers,
                   nruns, nfail, hist, closed,
                   last_prompt, current_caption_file, editor_text>>
    /\ UNCHANGED srvVars

\* log_status (lines 575-579), progress.configure (line 643) and
\* item.set_status (lines 104-106), run by the controller after one image
after_report ==
    /\ CtlFree
    /\ afterq # <<>>
    /\ Head(afterq).fn = "report"
    /\ afterq' = Tail(afterq)
    /\ status_log' = Append(status_log,
                            [ok |-> Head(afterq).ok, name |-> Head(afterq).name])
    /\ progress' = Head(afterq).value
    /\ items' = IF items[Head(afterq).item].alive
                THEN [items EXCEPT ![Head(afterq).item].label =
                                      Head(afterq).label]
                ELSE items
    /\ UNCHANGED <<batch_running, queue, nitems, overwrite, btn_proc,
                   prog_lbl, dialog, caption, workers, nruns, nfail, hist, closed,
                   last_prompt, current_caption_file, editor_text>>
    /\ UNCHANGED srvVars

\* lines 602-603 and 649-650, run by the controller: the button and the
\* run indicator are reset
after_reset ==
    /\ CtlFree
    /\ afterq # <<>>
    /\ Head(afterq).fn = "reset"
    /\ afterq' = Tail(afterq)
    /\ btn_proc' = Head(afterq).btn
    /\ prog_lbl' = Head(afterq).text
    /\ UNCHANGED <<batch_running, queue, items, nitems, overwrite, progress,
                   status_log, dialog, caption, workers, nruns, nfail, hist, closed,
                   last_prompt, current_caption_file, editor_text>>
    /\ UNCHANGED srvVars

\* The orchestrator with an endpoint and a file system that can fail, and
\* an operator who starts a run only once the thread of the previous run
\* has returned.
NextBatch ==
    \/ add_folder
    \/ toggle_batch(BOOLEAN) /\ (nruns' # nruns => \A w \in Workers : ~Active(w))
    \/ dismiss_dialog
    \/ \E w \in Workers : run_batch(w, Outcomes)
    \/ after_set_status
    \/ after_report
    \/ after_reset

\* The orchestrator with a healthy endpoint and file system, and an operator
\* who toggles the Overwrite checkbox at any moment and starts a run only
\* once the thread of the previous run has returned.
NextOverwrite ==
    \/ add_folder
    \/ toggle_overwrite
    \/ toggle_batch({TRUE}) /\ (nruns' # nruns => \A w \in Workers : ~Active(w))
    \/ \E w \in Workers : run_batch(w, {"ok"})
    \/ after_set_status
    \/ after_report
    \/ after_reset

\* The orchestrator with a healthy endpoint and file system, and an operator
\* who queues the folders before the first run and then clicks the batch
\* button at any moment.
NextRace ==
    \/ add_folder /\ nruns = 0
    \/ toggle_batch({TRUE})
    \/ \E w \in Workers : run_batch(w, {"ok"})
    \/ after_set_status
    \/ after_report
    \/ after_reset

NextServer ==
    \/ start_server
    \/ stop_server
    \/ reset_ui_timer
    \/ reset_ui_after
    \/ \E p \in Pids : watch_server_line(p)
    \/ \E p \in Pids : watch_server_eof(p)
    \/ \E p \in Pids : proc_exit(p)
    \/ \E w \in waiting : wait_returns(w)
    \/ on_close

\* the server tab with the path fields edited between launches
NextLaunch ==
    \/ NextServer
    \/ \E field \in {"bin", "model"}, exists \in BOOLEAN :
          set_path(field, exists)

\* the server tab with servers that fork children
NextGroup ==
    \/ NextServer
    \/ \E p \in Pids, c \in Kids : spawn_child(p, c)

Init ==
    /\ InitServer
    /\ InitBatch
    /\ afterq = <<>>
    /\ closed = FALSE

\* Init with folders that hold no caption file yet
InitFresh ==
    /\ Init
    /\ \A t \in TxtFiles : caption[t] = "absent"

SpecServer == Init /\ [][NextServer]_vars
SpecLaunch == Init /\ [][NextLaunch]_vars
SpecGroup == Init /\ [][NextGroup]_vars

SpecBatch == Init /\ [][NextBatch]_vars

\* Scheduling.  Each run_batch thread is an operating-system thread (line
\* 597) and goes on running while it has a step to take; the Tk main loop
\* (line 660) runs each pending root.after(0, ...) call once it is idle.
\* Nothing obliges the operator to click.
Fairness ==
    /\ \A w \in Workers : WF_vars(run_batch(w, Outcomes))
    /\ WF_vars(after_set_status)
    /\ WF_vars(after_report)
    /\ WF_vars(after_reset)

\* the orchestrator of SpecBatch, started with no caption file, under that
\* scheduling
SpecBatchFair == InitFresh /\ [][NextBatch]_vars /\ Fairness

SpecOverwrite == Init /\ [][NextOverwrite]_vars

SpecRace == InitFresh /\ [][NextRace]_vars

\* the batch tab with items removed as well as added, one run at a time,
\* every attempt succeeding
NextQueue ==
    \/ add_folder
    \/ \E id \in ItemIds : remove_item(id)
    \/ toggle_batch({TRUE}) /\ (nruns' # nruns => \A w \in Workers : ~Active(w))
    \/ \E w \in Workers : run_batch(w, {"ok"})
    \/ after_set_status \/ after_report \/ after_reset

SpecQueue == InitFresh /\ [][NextQueue]_vars

\* the same under the scheduling of SpecBatchFair
SpecQueueFair == InitFresh /\ [][NextQueue]_vars /\ Fairness

\* the batch tab during a single run over folders that hold no caption file
\* at first, with the operator editing captions in the Editor tab meanwhile;
\* every attempt succeeds
NextEditor ==
    \/ add_folder /\ nruns = 0
    \/ \E img \in ImageFiles : load_caption_for_image(img)
    \/ \E text \in Typing \cup {editor_text} : autosave_caption(text)
    \/ toggle_batch({TRUE}) /\ (nruns' # nruns => nruns = 0)
    \/ \E w \in Workers : run_batch(w, {"ok"})
    \/ after_set_status \/ after_report \/ after_reset

SpecEditor == InitFresh /\ [][NextEditor]_vars

\* the batch tab with prompts edited while a single run is under way,
\* every attempt succeeding
NextPrompt ==
    \/ add_folder /\ nruns = 0
    \/ \E id \in ItemIds, text \in Typed : set_prompt(id, text)
    \/ toggle_batch({TRUE}) /\ (nruns' # nruns => nruns = 0)
    \/ \E w \in Workers : run_batch(w, {"ok"})
    \/ after_set_status \/ after_report \/ after_reset

SpecPrompt == InitFresh /\ [][NextPrompt]_vars

Next ==
    \/ NextLaunch
    \/ NextGroup
    \/ add_folder
    \/ \E id \in ItemIds : remove_item(id)
    \/ \E id \in ItemIds, text \in Typed : set_prompt(id, text)
    \/ toggle_overwrite
    \/ toggle_batch(BOOLEAN)
    \/ dismiss_dialog
    \/ \E w \in Workers : run_batch(w, Outcomes)
    \/ after_set_status
    \/ after_report
    \/ after_reset

Spec == Init /\ [][Next]_vars

(* =============================== claims =============================== *)

(* ------------------------------ C1 ----------------------------------- *)
\* C1: stop_server never makes the controller thread wait for the server
\* process: only background threads are ever blocked in Popen.wait, and
\* while a signalled process is still running the controller can still
\* handle its next event (the reset_ui timer that stop_server armed).
C1_StopNeverBlocksController ==
    /\ \A w \in waiting : w.thread = "bg"
    /\ \A p \in Pids :
         (p \in signaled /\ procs[p] = "running" /\ timers > 0 /\ ~closed)
           => ENABLED reset_ui_timer

\* a process that was signalled and still runs, its waiter in the
\* background, and the controller has already handled reset_ui since
C1_Witness ==
    \E p \in Pids :
       /\ p \in signaled
       /\ procs[p] = "running"
       /\ StopWaiter(p) \in waiting
       /\ btn_start = "normal"
       /\ timers = 0
       /\ ~closed

(* ------------------------------ C5 ----------------------------------- *)
\* C5: at most one server process launched by start_server is alive at any
\* time.
C5_AtMostOneServerAlive ==
    Cardinality({ p \in Pids : procs[p] = "running" }) <= 1

(* ------------------------------ C2 ----------------------------------- *)
Visits(att) == { <<a.idx, a.img>> : a \in att }
Ending(w) == workers[w].pc = "finish"

\* C2: when a run ends after a stop was requested during folder i, folders
\* 0..i-1 were marked done, folder i was marked error (Stopped) and the
\* folders after i were never marked.
C2_StopDuringFolder ==
    \A w \in Workers :
       (Ending(w) /\ hist[w].stopIdx >= 0) =>
          \A j \in 0..(workers[w].total - 1) :
             hist[w].marks[j] =
                IF j < hist[w].stopIdx THEN "done"
                ELSE IF j = hist[w].stopIdx THEN "error" ELSE "none"

(* ------------------------------ C4 ----------------------------------- *)
\* C4: at most one run_batch worker is alive at any time.
C4_AtMostOneRun ==
    Cardinality({ w \in Workers : Active(w) }) <= 1

(* ------------------------------ C3 ----------------------------------- *)
\* C3: an image whose caption file exists when it is reached while
\* Overwrite is off gets no attempt (no inference call, no write): every
\* attempt was made with the file absent or Overwrite on, no skipped visit
\* has an attempt, and a caption file changes only in the step of an
\* attempt that found it absent or Overwrite on.
C3_Attempts ==
    \A w \in Workers :
       /\ \A a \in hist[w].att : a.had => a.ov
       /\ hist[w].skips \cap Visits(hist[w].att) = {}

C3_Writes ==
    \A t \in TxtFiles :
       caption'[t] # caption[t] =>
          \E w \in Workers :
             /\ workers[w].pc = "infer"
             /\ Txt(workers[w].imgs[workers[w].k]) = t
             /\ (workers[w].had => workers[w].ov)
             /\ workers'[w] # workers[w]

C3_SkipLeavesCaption == [][C3_Writes /\ C3_Attempts']_vars

\* a run ends with Overwrite off: it skipped an image whose caption was
\* there before the run, captioned another one, and the old caption is as
\* it was
C3_Witness ==
    \E w \in Workers :
       /\ Ending(w)
       /\ ~overwrite
       /\ \E v \in hist[w].skips : caption[Txt(v[2])] = "orig"
       /\ \E a \in hist[w].att : a.ok /\ ~a.ov

(* ------------------------------ C6 ----------------------------------- *)
\* C6: within one run, each progress value emitted is at least the one
\* emitted before it.
C6_ProgressMonotone ==
    [][\A w \in Workers :
          (hist[w].lastPct >= 0 /\ hist'[w].lastPct >= 0)
             => hist'[w].lastPct >= hist[w].lastPct]_vars

\* a run that has emitted progress in two folders
C6_Witness ==
    \E w \in Workers :
       /\ 50 \in hist[w].pcts
       /\ hist[w].lastPct = 75

(* ------------------------------ C7 ----------------------------------- *)
\* C7: a run that emitted the progress value 100 has marked every folder
\* of its queue done.
C7_HundredOnlyIfAllDone ==
    \A w \in Workers :
       (Ending(w) /\ 100 \in hist[w].pcts) =>
          \A j \in 0..(workers[w].total - 1) : hist[w].marks[j] = "done"

(* ------------------------------ C8 ----------------------------------- *)
\* the image files of the folders now in the queue
QueuedImages ==
    { f \in ImageFiles :
        \E i \in 1..Len(queue) : items[queue[i]].folder = f.folder }

\* a run that ends without having seen the flag cleared, without a failed
\* attempt and over an unchanged queue, with Overwrite off
CleanRun(w) ==
    /\ Ending(w)
    /\ ~hist[w].cancelled
    /\ ~hist[w].qmut
    /\ \A a \in hist[w].att : a.text /\ ~a.ov

\* C8: such a run made as many inference calls as images lacked a caption
\* when it started, leaves a caption file for every image, and the last
\* progress value it emitted is 100.
C8_FullRun ==
    \A w \in Workers :
       CleanRun(w) =>
          /\ Cardinality({ a \in hist[w].att : a.called })
                = Cardinality(hist[w].missing0)
          /\ \A f \in QueuedImages : caption[Txt(f)] # "absent"
          /\ hist[w].lastPct = 100

\* the part of C8 that the code does satisfy
C8_CallsAndFiles ==
    \A w \in Workers :
       CleanRun(w) =>
          /\ Cardinality({ a \in hist[w].att : a.called })
                = Cardinality(hist[w].missing0)
          /\ \A f \in QueuedImages : caption[Txt(f)] # "absent"

(* ------------------------------ C9 ----------------------------------- *)
\* C9: the step in which the connection error is shown leaves the flag
\* false and changes neither the workers, the work items, the status log,
\* the caption files nor the batch button.
C9_FailedStartChangesNothing ==
    [][(dialog = "none" /\ dialog' = "Connection Error") =>
          /\ ~batch_running /\ ~batch_running'
          /\ UNCHANGED <<workers, nruns, items, queue, status_log, caption,
                         btn_proc, afterq>>]_vars

\* the error box is up over the status log of an earlier run
C9_Witness ==
    /\ dialog = "Connection Error"
    /\ status_log # <<>>
    /\ \E i \in ItemIds : items[i].label.msg = "Complete"

(* ------------------------------ C10 ---------------------------------- *)
\* the step of an attempt that yields no caption text: the file could not
\* be read, the call failed, the reply was empty, or the write failed
FailedAttempt(w) ==
    /\ workers[w].pc = "infer"
    /\ nfail' = nfail + 1

\* the worker goes on with the same folder
StaysInFolder(w) ==
    /\ workers'[w].pc = "image"
    /\ workers'[w].k = workers[w].k
    /\ workers'[w].imgs = workers[w].imgs
    /\ workers'[w].it = workers[w].it

C10_FailureStep ==
    \A w \in Workers :
       FailedAttempt(w) =>
          /\ StaysInFolder(w)
          /\ workers'[w].done = workers[w].done
          /\ Len(afterq') = Len(afterq) + 1
          /\ LET e == afterq'[Len(afterq')] IN
                /\ e.fn = "report"
                /\ ~e.ok
                /\ e.name = Basename(workers[w].imgs[workers[w].k])

C10_RunCompletes ==
    \A w \in Workers :
       (Ending(w) /\ ~hist[w].cancelled /\ ~hist[w].qmut) =>
          /\ \A j \in 0..(workers[w].total - 1) : hist[w].marks[j] = "done"
          /\ \A i \in 1..Len(queue) :
                \A f \in ImageFiles :
                   f.folder = items[queue[i]].folder =>
                      <<i - 1, f>> \in hist[w].skips \cup Visits(hist[w].att)

\* C10: a failed attempt (unreadable file, inference error, empty reply,
\* write error) queues a failure line with the image's file name, leaves the
\* done count as it was and returns the worker to the image loop of the
\* same folder; and a run that never saw the flag cleared, over an unchanged
\* queue, has visited every image of every folder and marked every folder
\* done when it ends, whatever attempts failed.
C10_FailureIsIsolated == [][C10_FailureStep /\ C10_RunCompletes']_vars

\* the part of C10 the code does satisfy: no failed attempt leaves the
\* folder, and the uncancelled run completes
C10_NoAbort ==
    [][(\A w \in Workers : FailedAttempt(w) => StaysInFolder(w))
          /\ C10_RunCompletes']_vars

(* ------------------------------ C11 ---------------------------------- *)
\* a run has marked the item's folder Processing and has not yet marked it
\* Done or Stopped
Processing(id) == \E w \in Workers : InFolder(w) /\ workers[w].item = id

\* C11: no step takes an item out of the queue, or destroys it, while a run
\* is processing its folder; and the step that destroys an item in any
\* other status takes it out of the queue.
C11_DequeueSparesProcessing ==
    [][\A id \in ItemIds :
          /\ (Processing(id) /\ InQueue(id))
                => (items'[id].alive /\ \E i \in 1..Len(queue') : queue'[i] = id)
          /\ (~Processing(id) /\ items[id].alive /\ ~items'[id].alive)
                => ~(\E i \in 1..Len(queue') : queue'[i] = id)]_vars

\* the part of C11 the code does satisfy: an item that is not being
\* processed is removed
C11_OthersRemoved ==
    [][\A id \in ItemIds :
          (~Processing(id) /\ items[id].alive /\ ~items'[id].alive)
             => ~(\E i \in 1..Len(queue') : queue'[i] = id)]_vars

(* ------------------------------ C12 ---------------------------------- *)
\* C12: every request of a run carries the prompt its folder's item held
\* when the folder was started.
C12_PromptBoundAtFolderStart ==
    \A w \in Workers : \A a \in hist[w].att : a.prompt = a.begin

(* ------------------------------ C13 ---------------------------------- *)
\* a stop has been requested of the run of worker w and no run was started
\* since
Stopping(w) == Active(w) /\ workers[w].pc # "start" /\ ~batch_running

C13_Step ==
    \A w \in Workers :
       Stopping(w) =>
          /\ (workers'[w].pc = "infer" => workers[w].pc = "infer")
          /\ \A j \in 0..(MaxItems - 1) :
                hist'[w].marks[j] = "processing"
                   => hist[w].marks[j] = "processing"
          /\ \A a \in hist'[w].att \ hist[w].att :
                /\ workers[w].pc = "infer"
                /\ a.img = workers[w].imgs[workers[w].k]
                /\ a.text => caption'[Txt(a.img)] = "gen"

C13_InFlight ==
    \A w \in Workers :
       (Stopping(w) /\ workers[w].pc = "infer" /\ Room(1))
          => ENABLED run_infer(w, {"ok"})

\* C13: once a stop is requested, the attempt under way is still carried
\* out and a caption it yields is written, while the worker begins no
\* attempt on another image and marks no further folder Processing.
C13_StopIsCooperative == [][C13_Step /\ C13_InFlight']_vars

\* a run ends after a stop that arrived during the attempt on the first
\* image of a folder: that caption was written, the folder's other image
\* was never attempted
C13_Witness ==
    \E w \in Workers :
       /\ Ending(w)
       /\ hist[w].flight # <<>>
       /\ \E a \in hist[w].att :
             /\ <<a.idx, a.img>> = hist[w].flight
             /\ a.text
             /\ caption[Txt(a.img)] = "gen"
       /\ \E f \in ImageFiles :
             /\ f.folder = hist[w].flight[2].folder
             /\ f # hist[w].flight[2]
             /\ caption[Txt(f)] = "absent"
             /\ \A a \in hist[w].att : a.img # f

(* ------------------------------ C14 ---------------------------------- *)
\* the "Server stopped" notifications emitted for process p
Notified(p) ==
    Cardinality({ i \in 1..Len(log) : log[i] = Line("Server stopped", p) })

\* the reset_ui call queued by the watcher of p has not run yet
ResetPending(p) ==
    \E i \in 1..Len(afterq) :
       afterq[i].fn = "reset_ui" /\ afterq[i].pid = p

\* stop_server was never called on process p
NeverStopped(p) == p \notin signaled

C14_Once ==
    \A p \in Pids :
       NeverStopped(p) =>
          /\ Notified(p) <= 1
          /\ Notified(p) = 1 => procs[p] = "exited"
          /\ (procs[p] = "exited" /\ watchers[p] = "reading" /\ ~closed)
                => ENABLED watch_server_eof(p)
          /\ (watchers[p] = "done" /\ ~ResetPending(p)) => Notified(p) = 1

C14_Transition ==
    \A p \in Pids :
       (NeverStopped(p) /\ Len(log') > Len(log)
          /\ log'[Len(log')] = Line("Server stopped", p))
         => btn_start' = "normal" /\ btn_stop' = "disabled"

\* C14: a process that exits without stop_server having been called on it
\* has its end-of-stream seen by its watcher, and the reset_ui this queues
\* runs once: it enables Start, disables Stop and logs "Server stopped"
\* once for that process.
C14_OwnExitReportedOnce == [][C14_Transition /\ C14_Once']_vars

\* a process exited by itself and its one notification has been delivered
C14_Witness ==
    \E p \in Pids :
       /\ NeverStopped(p)
       /\ procs[p] = "exited"
       /\ watchers[p] = "done"
       /\ Notified(p) = 1
       /\ btn_start = "normal"
       /\ btn_stop = "disabled"

(* ------------------------------ C15 ---------------------------------- *)
\* the step reports Stopped: reset_ui logs "Server stopped"
ReportsStopped ==
    /\ Len(log') = Len(log) + 1
    /\ log'[Len(log')].text = "Server stopped"

\* the step is a stop_server call that got past its test of server_proc
StopActs == timers' = timers + 1 /\ server_proc # 0

\* Stopped is reported only when no launched process is still running
C15_StoppedAfterExit ==
    [][ReportsStopped => \A p \in Pids : procs[p] # "running"]_vars

\* stop acts only while the supervisor is Running (Stop enabled), never
\* after Stopped was reported
C15_NoStopWhenStopped ==
    [][StopActs => btn_stop = "normal"]_vars

\* C15: Stopped is reported only once every launched process has exited,
\* and stop_server never acts on a supervisor that is already Stopped.
C15_Lifecycle ==
    [][/\ ReportsStopped => \A p \in Pids : procs[p] # "running"
       /\ StopActs => btn_stop = "normal"]_vars

(* ------------------------------ C16 ---------------------------------- *)
\* the step is a start_server call
Starts == nstart' = nstart + 1

\* the call failed with a launch error and left the supervisor as it was
LaunchRefused ==
    /\ procs' = procs
    /\ server_proc' = server_proc
    /\ watchers' = watchers
    /\ btn_start' = "normal"
    /\ btn_stop' = btn_stop
    /\ log'[Len(log')].text = "Error"

\* C16: a start_server call made while the configured binary or the
\* configured model file is missing spawns no process, logs the launch
\* error and leaves server_proc, the buttons and the watchers as they were.
C16_MissingPathRefused ==
    [][(Starts /\ (~paths.bin \/ ~paths.model)) => LaunchRefused]_vars

\* the part of C16 the code does satisfy: a missing binary
C16_MissingBinaryRefused ==
    [][(Starts /\ ~paths.bin) => LaunchRefused]_vars

(* ------------------------------ C17 ---------------------------------- *)
\* the step is a stop_server call on the server process p
StopsServer(p) == timers' = timers + 1 /\ server_proc = p

\* C17: after a stop_server call no process of the server's group is left
\* unsignaled: the leader and every child it forked have been sent SIGTERM.
C17_GroupSignaled ==
    [][\A p \in Pids :
          StopsServer(p) =>
             /\ p \in signaled'
             /\ \A c \in Kids : kids'[p][c] # "running"]_vars

\* a server that had forked a child was stopped: both were signaled, and
\* the server is still running
C17_Witness ==
    \E p \in Pids :
       /\ p \in signaled
       /\ procs[p] = "running"
       /\ \E c \in Kids : kids[p][c] = "signaled"

(* ------------------------------ C18 ---------------------------------- *)
\* the position of an image file in the sorted list of all paths
PathRank(f) ==
    Cardinality({ g \in ImageFiles :
                    \/ g.folder = "A" /\ f.folder = "B"
                    \/ g.folder = f.folder /\ g.stem = "b1" /\ f.stem = "b2" })

\* the step is an attempt of worker w
Attempts(w) == workers[w].pc = "infer" /\ workers'[w].pc # "infer"

\* C18: each attempt of a run comes after the run's attempts on earlier
\* folders of the queue and, within its folder, after the attempts on the
\* images whose paths sort before it; no earlier attempt is on a later
\* folder or on a path that sorts after it.
C18_SortedOrder ==
    [][\A w \in Workers :
          Attempts(w) =>
             \A a \in hist[w].att :
                \/ a.idx < workers[w].idx
                \/ /\ a.idx = workers[w].idx
                   /\ PathRank(a.img)
                         < PathRank(workers[w].imgs[workers[w].k])]_vars

\* the part of C18 the code does satisfy: folders are taken in queue order
C18_FolderOrder ==
    [][\A w \in Workers :
          Attempts(w) =>
             /\ \A a \in hist[w].att : a.idx <= workers[w].idx
             /\ (~hist[w].qmut =>
                   queue[workers[w].idx + 1] = workers[w].item)]_vars

(* ------------------------------ C19 ---------------------------------- *)
\* the supervisor shows Running: Start disabled, Stop enabled
ShowsRunning == btn_start = "disabled" /\ btn_stop = "normal"

\* a start_server call that spawns yields a process that was never used
FreshHandle ==
    (Starts /\ procs' # procs) =>
       /\ server_proc' # server_proc
       /\ procs[server_proc'] = "none"
       /\ procs'[server_proc'] = "running"

\* the current process runs and stop_server was not called on it
Untouched ==
    /\ server_proc # 0
    /\ procs[server_proc] = "running"
    /\ server_proc \notin signaled
    /\ ~closed

\* C19: every launch, also a relaunch after a stop, yields a process with a
\* new identity, and the supervisor shows Running for it as long as it has
\* neither been stopped nor exited.
C19_RelaunchStaysRunning ==
    [][FreshHandle /\ (Untouched => ShowsRunning)']_vars

\* the part of C19 the code does satisfy: the relaunch gives a new process
C19_FreshHandle == [][FreshHandle]_vars

(* ------------------------------ C20 ---------------------------------- *)
\* worker w reads the length of an empty queue (line 599)
FindsEmpty(w) ==
    /\ workers[w].pc = "start"
    /\ Len(queue) = 0
    /\ workers'[w] # workers[w]

\* worker w returns from a run on an empty queue
EndsEmpty(w) == workers[w].pc = "empty" /\ workers'[w].pc = "exit"

C20_Step ==
    \A w \in Workers :
       /\ FindsEmpty(w) => workers'[w].pc = "empty"
       /\ workers[w].pc = "empty" => hist[w].att = {} /\ hist[w].skips = {}
       /\ EndsEmpty(w) =>
             /\ ~batch_running'
             /\ caption' = caption
             /\ dialog' = dialog
             /\ status_log' = status_log
             /\ items' = items
             /\ Len(afterq') = Len(afterq) + 1
             /\ afterq'[Len(afterq')].fn = "reset"
             /\ afterq'[Len(afterq')].text = "No folders in queue"

\* C20: a run started on an empty queue makes no inference call, writes no
\* caption, logs no error and raises no message box; it ends with the flag
\* cleared and queues the indicator text "No folders in queue".
C20_EmptyQueueIsNotAnError == [][C20_Step]_vars

\* a run on an empty queue has ended and the indicator shows its text
C20_Witness ==
    /\ queue = <<>>
    /\ nruns = 1
    /\ workers[1].pc = "exit"
    /\ ~batch_running
    /\ afterq = <<>>
    /\ prog_lbl = "No folders in queue"
    /\ btn_proc = "Start Processing"
    /\ dialog = "none"
    /\ status_log = <<>>

(* ------------------------------ C21 ---------------------------------- *)
\* the step is an attempt of worker w that is reported as failed
ReportedFailure(w) ==
    /\ workers[w].pc = "infer"
    /\ workers'[w].pc # "infer"
    /\ Len(afterq') = Len(afterq) + 1
    /\ afterq'[Len(afterq')].fn = "report"
    /\ ~afterq'[Len(afterq')].ok

\* C21: an attempt that is reported as failed leaves every caption file as
\* it was: an absent file stays absent and existing content is kept, so the
\* image is not skipped by a later run with Overwrite off.
C21_FailureKeepsCaption ==
    [][\A w \in Workers : ReportedFailure(w) => caption' = caption]_vars

\* the part of C21 the code does satisfy: a failure before the caption file
\* is opened (unreadable image, failed request) leaves the file alone
C21_EarlyFailureKeepsCaption ==
    [][\A w \in Workers :
          (ReportedFailure(w)
             /\ \E a \in hist'[w].att \ hist[w].att : ~a.wrote)
            => caption' = caption]_vars

(* ------------------------------ C22 ---------------------------------- *)
\* C22: when a run ends that was never asked to stop, every item that was
\* queued when it started and has not itself been removed has been marked
\* done by it, whatever other items were added or removed meanwhile.
C22_StartQueueProcessed ==
    \A w \in Workers :
       (Ending(w) /\ batch_running /\ ~hist[w].cancelled) =>
          \A id \in hist[w].queue0 :
             items[id].alive => id \in hist[w].finished

\* the part of C22 the code does satisfy: over a queue from which nothing
\* is removed
C22_WithoutRemoval ==
    \A w \in Workers :
       (Ending(w) /\ batch_running /\ ~hist[w].cancelled
          /\ \A id \in hist[w].queue0 : items[id].alive) =>
          hist[w].queue0 \subseteq hist[w].finished

(* ------------------------------ C23 ---------------------------------- *)
\* the step is taken by a run_batch thread
WorkerStep ==
    \E w \in Workers : Active(w) /\ workers'[w] # workers[w]

\* the step is taken by a watch_server thread
WatcherStep ==
    \E p \in Pids :
       /\ watchers[p] = "reading"
       /\ nlines' # nlines \/ watchers'[p] = "done"

\* the state owned by the controller thread
Owned ==
    <<batch_running, items, queue, log, status_log, progress, btn_proc,
      prog_lbl, btn_start, btn_stop>>

\* C23: no step of a run_batch or watch_server thread changes the running
\* flag, an item, the server log, the status log, the progress value or a
\* button; such changes are made by the controller only.
C23_NoDirectMutation ==
    [][(WorkerStep \/ WatcherStep) => UNCHANGED Owned]_vars

\* the worker's part of C23
C23_WorkerHandsOff == [][WorkerStep => UNCHANGED Owned]_vars

\* the part of C23 the code does satisfy: item labels, the status log, the
\* progress bar and the buttons are changed through root.after only
C23_WidgetsDeferred ==
    [][(WorkerStep \/ WatcherStep) =>
          UNCHANGED <<items, queue, status_log, progress, btn_proc, prog_lbl,
                      btn_start, btn_stop>>]_vars

(* ------------------------------ C24 ---------------------------------- *)
\* C24: no step taken while the batch button reads "Stop Processing"
\* starts a run_batch thread.
C24_StopButtonNeverStarts ==
    [][btn_proc = "Stop Processing" => nruns' = nruns]_vars

(* ------------------------------ C25 ---------------------------------- *)
\* C25: every progress value a run has emitted, and the value the progress
\* bar holds, lies between 0 and 100.
C25_ProgressInRange ==
    /\ progress \in 0..100
    /\ \A w \in Workers : \A v \in hist[w].pcts : v \in 0..100

\* the part of C25 the code does satisfy: over a queue that does not change
\* during the run
C25_FixedQueueInRange ==
    \A w \in Workers :
       ~hist[w].qmut => \A v \in hist[w].pcts : v \in 0..100

(* ------------------------------ C26 ---------------------------------- *)
\* the worker reaches the next image of its folder with the run still on,
\* and skips it
Reaches(w) ==
    /\ workers[w].pc = "image"
    /\ workers[w].k < Len(workers[w].imgs)
    /\ ~StopSeen
    /\ workers'[w] # workers[w]
Reached(w) == workers[w].imgs[workers[w].k + 1]
Skips(w) == workers'[w].pc = "image"

\* C26: whether an image is skipped or processed is fixed by whether its
\* caption file existed when its folder was scanned: it is skipped exactly
\* when the file existed then and Overwrite is off, whatever has appeared
\* since.
C26_DecisionFixedAtScan ==
    [][\A w \in Workers :
         Reaches(w) =>
           (Skips(w) <=> (Reached(w) \in hist[w].had0 /\ ~overwrite))]_vars

\* the part of C26 the code does satisfy: an image whose caption file
\* existed at the scan is skipped when Overwrite is off
C26_PresentAtScanSkipped ==
    [][\A w \in Workers :
         (Reaches(w) /\ Reached(w) \in hist[w].had0 /\ ~overwrite)
            => Skips(w)]_vars

(* ------------------------------ C27 ---------------------------------- *)
\* the run of thread w has entered the loop over the queue; the state the
\* run is to end in
InLoop(w) ==
    workers[w].pc \in {"folder", "image", "infer", "folder_end", "finish"}
Settled(w) ==
    /\ workers[w].pc = "exit"
    /\ ~batch_running
    /\ prog_lbl = "Idle"
    /\ btn_proc = "Start Processing"

C27_EachEffect ==
    \A w \in Workers :
       /\ InLoop(w) ~> (workers[w].pc = "exit" /\ ~batch_running)
       /\ InLoop(w) ~> (/\ workers[w].pc = "exit"
                        /\ prog_lbl = "Idle"
                        /\ btn_proc = "Start Processing")

====
